---- MODULE Spec2Model ----
(***************************************************************************)
(* A model of the UrlShortener class of src/url-shortener.js: one store    *)
(* (a Map from alias to association record, in insertion order), the       *)
(* configured domain, and the four public operations add, query, count     *)
(* and remove.  Strings are sequences of one-character strings, so that    *)
(* split('/'), toLowerCase(), startsWith() and includes('.') are computed  *)
(* as the code computes them.                                              *)
(***************************************************************************)
EXTENDS Integers, Sequences, FiniteSets, TLC

VARIABLES
  baseUrl,      \* this.baseUrl: the configured domain
  collection,   \* this.collection: the Map, as a sequence of entries in insertion order
  issued,       \* history: <<case-folded long URL, alias>> of the first successful add of each URL
  removed,      \* history: <<alias, longUrl>> deactivated by a remove and not re-added since
  hits          \* history: per alias, the successful queries since its record was created
                \* (the history is recorded under SpecRecorded only)

vars == <<baseUrl, collection, issued, removed, hits>>

----------------------------------------------------------------------------
(* Bounds *)

\* A query is taken only while it leaves every hit counter at or below MaxHits.
MaxHits == 2

----------------------------------------------------------------------------
(* JavaScript strings *)

\* The lower-case form of each upper-case letter
LowerOf == [A |-> "a", B |-> "b", C |-> "c", D |-> "d", E |-> "e", F |-> "f", G |-> "g",
            H |-> "h", I |-> "i", J |-> "j", K |-> "k", L |-> "l", M |-> "m", N |-> "n",
            O |-> "o", P |-> "p", Q |-> "q", R |-> "r", S |-> "s", T |-> "t", U |-> "u",
            V |-> "v", W |-> "w", X |-> "x", Y |-> "y", Z |-> "z"]

\* The value of a missing array element or of an unassigned var.
Undefined == <<"undefined">>

toLowerCaseChar(c) == IF c \in DOMAIN LowerOf THEN LowerOf[c] ELSE c

\* String.prototype.toLowerCase
RECURSIVE toLowerCase(_)
toLowerCase(s) ==
  IF s = <<>> THEN <<>> ELSE <<toLowerCaseChar(Head(s))>> \o toLowerCase(Tail(s))

\* String.prototype.startsWith
startsWith(s, p) == Len(s) >= Len(p) /\ SubSeq(s, 1, Len(p)) = p

\* String.prototype.includes, for a one-character needle
includes(s, c) == \E i \in 1..Len(s) : s[i] = c

\* String.prototype.split('/'): the segments between the slashes, in order;
\* splitFrom reads s with the closed segments in parts and the open one in segment
RECURSIVE splitFrom(_, _, _)
splitFrom(s, parts, segment) ==
  IF s = <<>> THEN Append(parts, segment)
  ELSE IF Head(s) = "/"
    THEN splitFrom(Tail(s), Append(parts, segment), <<>>)
    ELSE splitFrom(Tail(s), parts, Append(segment, Head(s)))

split(s) == splitFrom(s, <<>>, <<>>)

\* parts[n] with JavaScript's 0-based index: undefined past the end
At(parts, n) == IF n + 1 <= Len(parts) THEN parts[n + 1] ELSE Undefined

\* Truthiness of a string-or-undefined value: undefined and '' are falsy
Truthy(x) == x # Undefined /\ x # <<>>

----------------------------------------------------------------------------
(* String literals of the source *)

StrHttp        == <<"h", "t", "t", "p", ":", "/", "/">>
StrHttps       == <<"h", "t", "t", "p", "s", ":", "/", "/">>
CodeUrlSyntax  == <<"U", "R", "L", "_", "S", "Y", "N", "T", "A", "X">>
CodeDomain     == <<"D", "O", "M", "A", "I", "N">>
CodeNotFound   == <<"N", "O", "T", "_", "F", "O", "U", "N", "D">>
MsgBadUrl      == <<"U", "R", "L", "_", "S", "Y", "N", "T", "A", "X", ":", " ",
                    "b", "a", "d", " ", "u", "r", "l", " ">>
MsgAddDomain   == <<"l", "o", "n", "g", "U", "r", "l", " ", "d", "o", "m", "a", "i", "n",
                    " ", "i", "s", " ", "e", "q", "u", "a", "l", " ", "t", "o", " ",
                    "S", "H", "O", "R", "T", "E", "N", "E", "R", "_", "D", "O", "M", "A", "I", "N">>
MsgQueryDomain == <<"s", "h", "o", "r", "t", "U", "r", "l", " ", "d", "o", "m", "a", "i", "n",
                    " ", "i", "s", " ", "n", "o", "t", " ", "e", "q", "u", "a", "l", " ",
                    "t", "o", " ", "S", "H", "O", "R", "T", "E", "N", "E", "R", "_",
                    "D", "O", "M", "A", "I", "N">>
MsgNotFoundPre == <<"N", "O", "T", "_", "F", "O", "U", "N", "D", ":", " ">>
MsgNotFoundSuf == <<" ", "n", "o", "t", " ", "f", "o", "u", "n", "d">>
MsgNeverRegistered ==
  <<"u", "r", "l", " ", "w", "a", "s", " ", "n", "e", "v", "e", "r", " ",
    "r", "e", "g", "i", "s", "t", "e", "r", "e", "d", " ", "f", "o", "r", " ",
    "t", "h", "i", "s", " ", "s", "e", "r", "v", "i", "c", "e">>

----------------------------------------------------------------------------
(* The Map: a sequence of [key, longUrl, count, active] in insertion order *)

MapHas(coll, k) == \E i \in 1..Len(coll) : coll[i].key = k

MapIndex(coll, k) == CHOOSE i \in 1..Len(coll) : coll[i].key = k

\* Map.prototype.set: an existing key keeps its position, a new key goes last
MapSet(coll, k, longUrl, count, active) ==
  LET e == [key |-> k, longUrl |-> longUrl, count |-> count, active |-> active]
  IN  IF MapHas(coll, k)
        THEN [coll EXCEPT ![MapIndex(coll, k)] = e]
        ELSE Append(coll, e)

\* The indexes of the entries whose longUrl is u
Matching(coll, u) == {i \in 1..Len(coll) : coll[i].longUrl = u}

\* The entry a forEach that overwrites a var on every match leaves in it: the last match
LastMatch(coll, u) == CHOOSE i \in Matching(coll, u) : \A j \in Matching(coll, u) : j <= i

\* forEach(... set(key, {...element, active: a})) over the entries whose longUrl is u
RECURSIVE SetActiveWhere(_, _, _)
SetActiveWhere(coll, u, a) ==
  IF coll = <<>> THEN <<>>
  ELSE <<IF Head(coll).longUrl = u THEN [Head(coll) EXCEPT !.active = a] ELSE Head(coll)>>
         \o SetActiveWhere(Tail(coll), u, a)

----------------------------------------------------------------------------
(* Private methods *)

\* The tokens _generateHash() returns in this model: the empty token (slice(5, 12)
\* of a random number that has fewer than four base-36 digits, such as 0.5 -> "0.i")
\* and one other.  The same token may be returned again: nothing in the code
\* keeps Math.random() from repeating.
HashK == <<"k">>
Hashes == {<<>>, HashK}

\* A faulty variant of the condition: the authority's '.' is not looked for
UrlSyntaxBadNoDotCheck(url) ==
  LET urlParts == split(url)
      lower    == toLowerCase(url)
  IN  \/ ~(startsWith(lower, StrHttp) \/ startsWith(lower, StrHttps))
      \/ Len(At(urlParts, 2)) = 0

\* The condition of _urlSyntaxError
UrlSyntaxBad(url) ==
  LET urlParts == split(url)
      lower    == toLowerCase(url)
  IN  \/ ~(startsWith(lower, StrHttp) \/ startsWith(lower, StrHttps))
      \/ Len(At(urlParts, 2)) = 0
      \/ ~includes(At(urlParts, 2), ".")

\* The object _urlSyntaxError returns when the condition holds
UrlSyntaxError(url) ==
  [error |-> [code |-> CodeUrlSyntax, message |-> MsgBadUrl \o url]]

NotFound == [error |-> [code |-> CodeNotFound, message |-> MsgNeverRegistered]]

IsSameOrigin(base, url) == At(split(toLowerCase(url)), 2) = base

EmptyObject == [f \in {} |-> 0]

----------------------------------------------------------------------------
(* Public methods: each gives the returned object and the Map it leaves *)

\* The var exists of add after its forEach: the key of the last matching entry
AddExists(coll, lower) ==
  IF Matching(coll, lower) = {} THEN Undefined ELSE coll[LastMatch(coll, lower)].key

\* The template `${urlParts[0]}//${this.baseUrl}/${alias}`
ShortUrl(base, urlParts, alias) ==
  At(urlParts, 0) \o <<"/", "/">> \o base \o <<"/">> \o alias

\* A faulty variant of add: the short URL takes the scheme as it was submitted,
\* not lower-cased
addSubmittedScheme(coll, base, longUrl, hash) ==
  IF UrlSyntaxBad(longUrl) THEN [res |-> UrlSyntaxError(longUrl), coll |-> coll]
  ELSE IF IsSameOrigin(base, longUrl)
    THEN [res |-> [error |-> [code |-> CodeDomain, message |-> MsgAddDomain]], coll |-> coll]
  ELSE LET lower     == toLowerCase(longUrl)
           exists    == AddExists(coll, lower)
           activated == SetActiveWhere(coll, lower, TRUE)
           urlParts  == split(longUrl)
       IN  IF Truthy(exists)
             THEN [res  |-> [value |-> ShortUrl(base, urlParts, exists)],
                   coll |-> activated]
             ELSE [res  |-> [value |-> ShortUrl(base, urlParts, hash)],
                   coll |-> MapSet(activated, hash, lower, 0, TRUE)]

\* A faulty variant of add: a URL of the store's own domain is not refused
addOwnDomain(coll, base, longUrl, hash) ==
  IF UrlSyntaxBad(longUrl) THEN [res |-> UrlSyntaxError(longUrl), coll |-> coll]
  ELSE LET lower     == toLowerCase(longUrl)
           exists    == AddExists(coll, lower)
           activated == SetActiveWhere(coll, lower, TRUE)
           urlParts  == split(lower)
       IN  IF Truthy(exists)
             THEN [res  |-> [value |-> ShortUrl(base, urlParts, exists)],
                   coll |-> activated]
             ELSE [res  |-> [value |-> ShortUrl(base, urlParts, hash)],
                   coll |-> MapSet(activated, hash, lower, 0, TRUE)]

add(coll, base, longUrl, hash) ==
  IF UrlSyntaxBad(longUrl) THEN [res |-> UrlSyntaxError(longUrl), coll |-> coll]
  ELSE IF IsSameOrigin(base, longUrl)
    THEN [res |-> [error |-> [code |-> CodeDomain, message |-> MsgAddDomain]], coll |-> coll]
  ELSE LET lower     == toLowerCase(longUrl)
           exists    == AddExists(coll, lower)
           activated == SetActiveWhere(coll, lower, TRUE)
           urlParts  == split(lower)
       IN  IF Truthy(exists)
             THEN [res  |-> [value |-> ShortUrl(base, urlParts, exists)],
                   coll |-> activated]
             ELSE [res  |-> [value |-> ShortUrl(base, urlParts, hash)],
                   coll |-> MapSet(activated, hash, lower, 0, TRUE)]

\* A faulty variant of query: the hit is counted before the active flag is looked at
queryCountsInactive(coll, base, shortUrl) ==
  IF UrlSyntaxBad(shortUrl) THEN [res |-> UrlSyntaxError(shortUrl), coll |-> coll]
  ELSE IF ~IsSameOrigin(base, shortUrl)
    THEN [res |-> [error |-> [code |-> CodeDomain, message |-> MsgQueryDomain]], coll |-> coll]
  ELSE LET uniqueHash == At(split(shortUrl), 3)
       IN  IF MapHas(coll, uniqueHash)
             THEN LET exist   == coll[MapIndex(coll, uniqueHash)]
                      counted == MapSet(coll, uniqueHash, exist.longUrl,
                                        exist.count + 1, exist.active)
                  IN  IF exist.active
                        THEN [res |-> [value |-> exist.longUrl], coll |-> counted]
                        ELSE [res  |-> [error |-> [code    |-> CodeNotFound,
                                                   message |-> MsgNotFoundPre \o shortUrl
                                                                 \o MsgNotFoundSuf]],
                              coll |-> counted]
             ELSE [res  |-> [error |-> [code    |-> CodeNotFound,
                                        message |-> MsgNotFoundPre \o shortUrl \o MsgNotFoundSuf]],
                   coll |-> coll]

\* A faulty variant of query: an entry is resolved whether it is active or not
queryIgnoresActive(coll, base, shortUrl) ==
  IF UrlSyntaxBad(shortUrl) THEN [res |-> UrlSyntaxError(shortUrl), coll |-> coll]
  ELSE IF ~IsSameOrigin(base, shortUrl)
    THEN [res |-> [error |-> [code |-> CodeDomain, message |-> MsgQueryDomain]], coll |-> coll]
  ELSE LET uniqueHash == At(split(shortUrl), 3)
       IN  IF /\ MapHas(coll, uniqueHash)
              /\ Truthy(coll[MapIndex(coll, uniqueHash)].longUrl)
             THEN LET exist == coll[MapIndex(coll, uniqueHash)]
                  IN  [res  |-> [value |-> exist.longUrl],
                       coll |-> MapSet(coll, uniqueHash, exist.longUrl, exist.count + 1, exist.active)]
             ELSE [res  |-> [error |-> [code    |-> CodeNotFound,
                                        message |-> MsgNotFoundPre \o shortUrl \o MsgNotFoundSuf]],
                   coll |-> coll]

query(coll, base, shortUrl) ==
  IF UrlSyntaxBad(shortUrl) THEN [res |-> UrlSyntaxError(shortUrl), coll |-> coll]
  ELSE IF ~IsSameOrigin(base, shortUrl)
    THEN [res |-> [error |-> [code |-> CodeDomain, message |-> MsgQueryDomain]], coll |-> coll]
  ELSE LET uniqueHash == At(split(shortUrl), 3)
       IN  IF /\ MapHas(coll, uniqueHash)
              /\ Truthy(coll[MapIndex(coll, uniqueHash)].longUrl)
              /\ coll[MapIndex(coll, uniqueHash)].active
             THEN LET exist == coll[MapIndex(coll, uniqueHash)]
                  IN  [res  |-> [value |-> exist.longUrl],
                       coll |-> MapSet(coll, uniqueHash, exist.longUrl, exist.count + 1, exist.active)]
             ELSE [res  |-> [error |-> [code    |-> CodeNotFound,
                                        message |-> MsgNotFoundPre \o shortUrl \o MsgNotFoundSuf]],
                   coll |-> coll]

\* A faulty variant of count: a URL outside the store's domain is refused with
\* DOMAIN, as query refuses it
countRefusesForeign(coll, base, url) ==
  IF UrlSyntaxBad(url) THEN [res |-> UrlSyntaxError(url), coll |-> coll]
  ELSE IF ~IsSameOrigin(base, url)
    THEN [res |-> [error |-> [code |-> CodeDomain, message |-> MsgQueryDomain]], coll |-> coll]
  ELSE LET uniqueHash == At(split(url), 3)
       IN  IF MapHas(coll, uniqueHash)
             THEN [res |-> [value |-> coll[MapIndex(coll, uniqueHash)].count], coll |-> coll]
             ELSE [res |-> NotFound, coll |-> coll]

count(coll, base, url) ==
  IF UrlSyntaxBad(url) THEN [res |-> UrlSyntaxError(url), coll |-> coll]
  ELSE LET uniqueHash == At(split(url), 3)
           lower      == toLowerCase(url)
       IN  IF IsSameOrigin(base, url) /\ MapHas(coll, uniqueHash)
             THEN [res |-> [value |-> coll[MapIndex(coll, uniqueHash)].count], coll |-> coll]
           ELSE IF Matching(coll, lower) # {}
             THEN [res |-> [value |-> coll[LastMatch(coll, lower)].count], coll |-> coll]
           ELSE [res |-> NotFound, coll |-> coll]

\* A faulty variant of remove: the active flag of an entry found by its alias is
\* flipped instead of cleared
removeToggles(coll, base, url) ==
  IF UrlSyntaxBad(url) THEN [res |-> UrlSyntaxError(url), coll |-> coll]
  ELSE LET uniqueHash == At(split(url), 3)
           lower      == toLowerCase(url)
       IN  IF IsSameOrigin(base, url) /\ MapHas(coll, uniqueHash)
             THEN LET data == coll[MapIndex(coll, uniqueHash)]
                  IN  [res  |-> EmptyObject,
                       coll |-> MapSet(coll, uniqueHash, data.longUrl, data.count, ~data.active)]
           ELSE IF Matching(coll, lower) # {}
             THEN [res |-> EmptyObject, coll |-> SetActiveWhere(coll, lower, FALSE)]
           ELSE [res |-> NotFound, coll |-> coll]

\* A faulty variant of remove: an entry found by its alias is written back without
\* its hit count
removeResetsCount(coll, base, url) ==
  IF UrlSyntaxBad(url) THEN [res |-> UrlSyntaxError(url), coll |-> coll]
  ELSE LET uniqueHash == At(split(url), 3)
           lower      == toLowerCase(url)
       IN  IF IsSameOrigin(base, url) /\ MapHas(coll, uniqueHash)
             THEN LET data == coll[MapIndex(coll, uniqueHash)]
                  IN  [res  |-> EmptyObject,
                       coll |-> MapSet(coll, uniqueHash, data.longUrl, 0, FALSE)]
           ELSE IF Matching(coll, lower) # {}
             THEN [res |-> EmptyObject, coll |-> SetActiveWhere(coll, lower, FALSE)]
           ELSE [res |-> NotFound, coll |-> coll]

remove(coll, base, url) ==
  IF UrlSyntaxBad(url) THEN [res |-> UrlSyntaxError(url), coll |-> coll]
  ELSE LET uniqueHash == At(split(url), 3)
           lower      == toLowerCase(url)
       IN  IF IsSameOrigin(base, url) /\ MapHas(coll, uniqueHash)
             THEN LET data == coll[MapIndex(coll, uniqueHash)]
                  IN  [res  |-> EmptyObject,
                       coll |-> MapSet(coll, uniqueHash, data.longUrl, data.count, FALSE)]
           ELSE IF Matching(coll, lower) # {}
             THEN [res |-> EmptyObject, coll |-> SetActiveWhere(coll, lower, FALSE)]
           ELSE [res |-> NotFound, coll |-> coll]

----------------------------------------------------------------------------
(* Inputs *)

DomShortLy == <<"s", ".", "l", "y">>
DomMixed   == <<"S", ".", "l", "y">>
DomNoDot   == <<"s", "l", "y">>

\* The domains a store is constructed with: lower-case, mixed-case and dotless.
Domains == {DomShortLy, DomMixed, DomNoDot}

\* Long URLs: one, the same in another case, and the same under the other scheme
LongA      == StrHttp \o <<"e", ".", "c", "o", "/", "a">>
LongAUpper == <<"H", "T", "T", "P", ":", "/", "/", "E", ".", "c", "o", "/", "A">>
LongAHttps == StrHttps \o <<"e", ".", "c", "o", "/", "a">>
LongUrls   == {LongA, LongAUpper, LongAHttps}

\* URLs under the store's domains: with each token, an unknown token, the other
\* scheme, no path at all, and the domain in the other case
ShortEmpty   == StrHttp \o DomShortLy \o <<"/">>
ShortK       == StrHttp \o DomShortLy \o <<"/">> \o HashK
ShortZ       == StrHttp \o DomShortLy \o <<"/", "z">>
ShortKHttps  == StrHttps \o DomShortLy \o <<"/">> \o HashK
ShortNoPath  == StrHttp \o DomShortLy
ShortKMixed  == StrHttp \o DomMixed \o <<"/">> \o HashK
ShortLikeUrls == {ShortEmpty, ShortK, ShortZ, ShortKHttps, ShortNoPath, ShortKMixed}

\* URLs the syntax check refuses: no scheme, an empty authority, another scheme
\* before the store's own domain, and an authority without a dot
NoScheme       == DomShortLy \o <<"/">> \o HashK
EmptyAuthority == StrHttp \o <<"/">> \o HashK
FtpScheme      == <<"f", "t", "p", ":", "/", "/">> \o DomShortLy \o <<"/">> \o HashK
ShortKNoDot    == StrHttp \o DomNoDot \o <<"/">> \o HashK
MalformedUrls  == {NoScheme, EmptyAuthority, FtpScheme, ShortKNoDot}

Urls == LongUrls \cup ShortLikeUrls \cup MalformedUrls

----------------------------------------------------------------------------
(* The state machine *)

HasError(r) == "error" \in DOMAIN r
HasValue(r) == "value" \in DOMAIN r

\* The alias a short URL carries: its fourth '/'-delimited segment
AliasOf(shortUrl) == At(split(shortUrl), 3)

\* The entries a successful remove(url) deactivates
RemoveMatches(coll, base, url) ==
  IF IsSameOrigin(base, url) /\ MapHas(coll, AliasOf(url))
    THEN {MapIndex(coll, AliasOf(url))}
    ELSE Matching(coll, toLowerCase(url))

Init ==
  /\ baseUrl = DomShortLy
  /\ collection = <<>>
  /\ issued = {}
  /\ removed = {}
  /\ hits = [h \in Hashes |-> 0]

\* A store constructed with any of the domains
InitDomains ==
  /\ baseUrl \in Domains
  /\ collection = <<>>
  /\ issued = {}
  /\ removed = {}
  /\ hits = [h \in Hashes |-> 0]

history == <<issued, removed, hits>>

\* add(url), with the token _generateHash() returns when add calls it
AddStore(url, hash) ==
  /\ collection' = add(collection, baseUrl, url, hash).coll
  /\ UNCHANGED baseUrl

\* query(url), taken while it leaves every hit counter at or below MaxHits
QueryStore(url) ==
  LET r == query(collection, baseUrl, url)
  IN  /\ \A i \in 1..Len(r.coll) : r.coll[i].count <= MaxHits
      /\ collection' = r.coll
      /\ UNCHANGED baseUrl

CountStore(url) ==
  /\ collection' = count(collection, baseUrl, url).coll
  /\ UNCHANGED baseUrl

RemoveStore(url) ==
  /\ collection' = remove(collection, baseUrl, url).coll
  /\ UNCHANGED baseUrl

Add(url) == (\E hash \in Hashes : AddStore(url, hash)) /\ UNCHANGED history

Query(url) == QueryStore(url) /\ UNCHANGED history

Count(url) == CountStore(url) /\ UNCHANGED history

Remove(url) == RemoveStore(url) /\ UNCHANGED history

Next ==
  \E url \in Urls :
    \/ Add(url)
    \/ Query(url)
    \/ Count(url)
    \/ Remove(url)

\* The same calls, with the history of the calls recorded
AddRecorded(url) ==
  \E hash \in Hashes :
    LET res   == add(collection, baseUrl, url, hash).res
        lower == toLowerCase(url)
    IN  /\ AddStore(url, hash)
        /\ issued' = IF HasValue(res) /\ ~(\E p \in issued : p[1] = lower)
                       THEN issued \cup {<<lower, AliasOf(res.value)>>}
                       ELSE issued
        /\ removed' = IF HasValue(res) THEN {p \in removed : p[2] # lower} ELSE removed
        /\ hits' = IF HasValue(res) /\ ~Truthy(AddExists(collection, lower))
                     THEN [hits EXCEPT ![hash] = 0]
                     ELSE hits

QueryRecorded(url) ==
  /\ QueryStore(url)
  /\ hits' = IF HasValue(query(collection, baseUrl, url).res)
               THEN [hits EXCEPT ![AliasOf(url)] = @ + 1]
               ELSE hits
  /\ UNCHANGED <<issued, removed>>

CountRecorded(url) == CountStore(url) /\ UNCHANGED history

RemoveRecorded(url) ==
  /\ RemoveStore(url)
  /\ removed' = IF HasError(remove(collection, baseUrl, url).res)
                  THEN removed
                  ELSE removed \cup {<<collection[i].key, collection[i].longUrl>> :
                                       i \in RemoveMatches(collection, baseUrl, url)}
  /\ UNCHANGED <<issued, hits>>

NextRecorded ==
  \E url \in Urls :
    \/ AddRecorded(url)
    \/ QueryRecorded(url)
    \/ CountRecorded(url)
    \/ RemoveRecorded(url)

\* A store constructed with the lower-case dotted domain
Spec == Init /\ [][Next]_vars

\* A store constructed with any of the domains
SpecDomains == InitDomains /\ [][Next]_vars

\* A store constructed with the lower-case dotted domain, its history recorded
SpecRecorded == Init /\ [][NextRecorded]_vars

\* A store constructed with the lower-case dotted domain, whose callers go on
\* making calls that change it
SpecCalling == Init /\ [][Next]_vars /\ WF_vars(Next)

----
(* The vocabulary of the claims, from the specification's words *)

\* The authority of a URL: its third '/'-delimited segment
Authority(url) == At(split(url), 2)

\* The first n characters of s, or all of s when it is shorter
Prefix(s, n) == SubSeq(s, 1, IF n < Len(s) THEN n ELSE Len(s))

\* A URL fails the syntax rule: it does not begin, in any case, with http:// or
\* https://, or its authority is empty, or its authority has no '.'
SyntaxInvalid(url) ==
  \/ /\ Prefix(toLowerCase(url), 7) # StrHttp
     /\ Prefix(toLowerCase(url), 8) # StrHttps
  \/ Authority(url) = Undefined
  \/ Authority(url) = <<>>
  \/ \A i \in 1..Len(Authority(url)) : Authority(url)[i] # "."

ErrorCode(r) == IF HasError(r) THEN r.error.code ELSE <<>>

\* The short URL of an alias, as add composes it for an http long URL
ShortUrlOf(alias) == StrHttp \o baseUrl \o <<"/">> \o alias

----------------------------------------------------------------------------
(* Claims *)

\* C1: for every configured domain and every syntactically valid long URL u whose
\* authority is not the configured domain (in any case), in every reachable store,
\* add(u) returns a value and query of that value returns the value lowercase(u).
C1_RoundTrip ==
  \A u \in Urls, hash \in Hashes :
    (~SyntaxInvalid(u) /\ toLowerCase(Authority(u)) # toLowerCase(baseUrl)) =>
      LET a == add(collection, baseUrl, u, hash)
      IN  /\ HasValue(a.res)
          /\ LET q == query(a.coll, baseUrl, a.res.value)
             IN  HasValue(q.res) /\ q.res.value = toLowerCase(u)

\* C8: for every configured domain, add(u) of a syntactically valid URL whose
\* authority is the configured domain returns the error DOMAIN and leaves the store
\* as it was, and query(s) of a syntactically valid URL whose authority is not the
\* configured domain (in any case) returns the error DOMAIN.
C8_OwnDomain ==
  \A u \in Urls, hash \in Hashes :
    /\ (~SyntaxInvalid(u) /\ Authority(u) = baseUrl) =>
         LET a == add(collection, baseUrl, u, hash)
         IN  ErrorCode(a.res) = CodeDomain /\ a.coll = collection
    /\ (~SyntaxInvalid(u) /\ toLowerCase(Authority(u)) # toLowerCase(baseUrl)) =>
         ErrorCode(query(collection, baseUrl, u).res) = CodeDomain

\* C2: once add(u) has succeeded, every later successful add of a URL with the same
\* case-folded form returns a short URL carrying the alias the first add returned,
\* whatever token the generator produced.
C2_AliasStable ==
  \A u \in Urls, hash \in Hashes :
    \A p \in issued :
      p[1] = toLowerCase(u) =>
        LET a == add(collection, baseUrl, u, hash)
        IN  HasValue(a.res) => AliasOf(a.res.value) = p[2]

\* C3: no two records hold the same longUrl, and an add of a URL that has a record
\* leaves the number of records as it was.
C3_OneRecordPerUrl ==
  /\ \A i, j \in 1..Len(collection) :
       collection[i].longUrl = collection[j].longUrl => i = j
  /\ \A u \in Urls, hash \in Hashes :
       (\E i \in 1..Len(collection) : collection[i].longUrl = toLowerCase(u)) =>
         Len(add(collection, baseUrl, u, hash).coll) = Len(collection)

\* C4: while a record deactivated by a successful remove has not been added again,
\* query of its short URL returns NOT_FOUND; after the next successful add of its
\* long URL, query of the same short URL returns that long URL.
C4_SoftDelete ==
  \A p \in removed :
    /\ ErrorCode(query(collection, baseUrl, ShortUrlOf(p[1])).res) = CodeNotFound
    /\ \A u \in Urls, hash \in Hashes :
         LET a == add(collection, baseUrl, u, hash)
         IN  (toLowerCase(u) = p[2] /\ HasValue(a.res)) =>
               LET q == query(a.coll, baseUrl, ShortUrlOf(p[1]))
               IN  HasValue(q.res) /\ q.res.value = p[2]

\* C5: for every record, count of its short URL and count of its long URL both
\* return the number of successful queries of its alias since the record was
\* created (a number no remove or add changes).
C5_HitCount ==
  \A i \in 1..Len(collection) :
    LET e       == collection[i]
        byShort == count(collection, baseUrl, ShortUrlOf(e.key)).res
        byLong  == count(collection, baseUrl, e.longUrl).res
    IN  /\ HasValue(byShort) /\ byShort.value = hits[e.key]
        /\ HasValue(byLong) /\ byLong.value = hits[e.key]

\* An error result's message begins with its code, a colon and one space, and the
\* result has no value
EnvelopeOk(r) ==
  HasError(r) =>
    /\ startsWith(r.error.message, r.error.code \o <<":", " ">>)
    /\ ~HasValue(r)

\* C6: every error add, query, count or remove returns has a message that begins
\* with its own code, a colon and a space, and has no value.
C6_ErrorEnvelope ==
  \A u \in Urls, hash \in Hashes :
    /\ EnvelopeOk(add(collection, baseUrl, u, hash).res)
    /\ EnvelopeOk(query(collection, baseUrl, u).res)
    /\ EnvelopeOk(count(collection, baseUrl, u).res)
    /\ EnvelopeOk(remove(collection, baseUrl, u).res)

\* C7: in every store, add, query, count and remove each return the error
\* URL_SYNTAX for an argument that fails the syntax rule, whatever its authority
\* or alias would otherwise have made them return.
C7_SyntaxFirst ==
  \A u \in Urls, hash \in Hashes :
    SyntaxInvalid(u) =>
      /\ ErrorCode(add(collection, baseUrl, u, hash).res) = CodeUrlSyntax
      /\ ErrorCode(query(collection, baseUrl, u).res) = CodeUrlSyntax
      /\ ErrorCode(count(collection, baseUrl, u).res) = CodeUrlSyntax
      /\ ErrorCode(remove(collection, baseUrl, u).res) = CodeUrlSyntax

\* A store with an active record at alias k, where the malformed URLs that name the
\* store's domain and that alias are refused with URL_SYNTAX
C7_Witness ==
  /\ MapHas(collection, HashK)
  /\ collection[MapIndex(collection, HashK)].active
  /\ ErrorCode(query(collection, baseUrl, NoScheme).res) = CodeUrlSyntax
  /\ ErrorCode(add(collection, baseUrl, FtpScheme, HashK).res) = CodeUrlSyntax
  /\ ErrorCode(remove(collection, baseUrl, ShortKNoDot).res) = CodeUrlSyntax

\* C9: whenever add, query, count or remove returns an error, the store it leaves
\* is the store it was called on.
C9_NoPartialFailure ==
  \A u \in Urls, hash \in Hashes :
    /\ LET r == add(collection, baseUrl, u, hash) IN HasError(r.res) => r.coll = collection
    /\ LET r == query(collection, baseUrl, u) IN HasError(r.res) => r.coll = collection
    /\ LET r == count(collection, baseUrl, u) IN HasError(r.res) => r.coll = collection
    /\ LET r == remove(collection, baseUrl, u) IN HasError(r.res) => r.coll = collection

\* A store of two records, one of them queried and then deactivated, where query of
\* the deactivated record's short URL and add of the store's own URL return errors
C9_Witness ==
  /\ Len(collection) = 2
  /\ \E i \in 1..2 :
       /\ ~collection[i].active
       /\ collection[i].count > 0
       /\ ErrorCode(query(collection, baseUrl, ShortUrlOf(collection[i].key)).res)
            = CodeNotFound
  /\ ErrorCode(add(collection, baseUrl, ShortK, HashK).res) = CodeDomain
  /\ ErrorCode(remove(collection, baseUrl, ShortZ).res) = CodeNotFound

\* url names a record: by its alias when same-origin, or by its case-folded long URL
MatchesRecord(url) ==
  \/ /\ toLowerCase(Authority(url)) = baseUrl
     /\ \E i \in 1..Len(collection) : collection[i].key = AliasOf(url)
  \/ \E i \in 1..Len(collection) : collection[i].longUrl = toLowerCase(url)

\* C10: remove of a syntactically valid URL that names a record returns the empty
\* object whether the record is active or not, and a second remove of the same URL
\* returns the empty object too and leaves the store as the first left it.
C10_RemoveIdempotent ==
  \A u \in Urls :
    LET first  == remove(collection, baseUrl, u)
        second == remove(first.coll, baseUrl, u)
    IN  /\ (~SyntaxInvalid(u) /\ MatchesRecord(u)) => DOMAIN first.res = {}
        /\ DOMAIN first.res = {} =>
             /\ DOMAIN second.res = {}
             /\ second.coll = first.coll

\* A store with an active record and a record a remove has deactivated, where
\* remove of the first by its long URL and of the second by its short URL both
\* return the empty object
C10_Witness ==
  /\ \E i, j \in 1..Len(collection) :
       /\ collection[i].active
       /\ ~collection[j].active
       /\ DOMAIN remove(collection, baseUrl, collection[i].longUrl).res = {}
       /\ DOMAIN remove(collection, baseUrl, ShortUrlOf(collection[j].key)).res = {}

\* url names record i: by its alias when same-origin, or by its case-folded long URL
NamesRecord(url, i) ==
  \/ /\ toLowerCase(Authority(url)) = baseUrl
     /\ collection[i].key = AliasOf(url)
  \/ collection[i].longUrl = toLowerCase(url)

\* C11: count never changes the store; for a syntactically valid URL that names a
\* record, by its alias when same-origin or by its case-folded long URL, count
\* returns that record's hit count whether the record is active or not; and count
\* returns NOT_FOUND only for a URL that names no record.
C11_CountPureRead ==
  \A u \in Urls :
    LET r == count(collection, baseUrl, u)
    IN  /\ r.coll = collection
        /\ \A i \in 1..Len(collection) :
             (~SyntaxInvalid(u) /\ NamesRecord(u, i)) =>
               HasValue(r.res) /\ r.res.value = collection[i].count
        /\ ErrorCode(r.res) = CodeNotFound => ~MatchesRecord(u)

\* C12: no step destroys or rebinds a record: every alias that is a key of the store
\* before a call of add, query, count or remove is a key after it, and maps to the
\* longUrl it mapped to before.
C12_NeverRebound ==
  [][\A i \in 1..Len(collection) :
       \E j \in 1..Len(collection') :
         /\ collection'[j].key = collection[i].key
         /\ collection'[j].longUrl = collection[i].longUrl]_vars

\* The hit count the record of alias key has in coll
CountOf(coll, key) == coll[MapIndex(coll, key)].count

\* Every record of the store has in coll the hit count it has in the store
CountsKept(coll) ==
  \A i \in 1..Len(collection) :
    /\ MapHas(coll, collection[i].key)
    /\ CountOf(coll, collection[i].key) = collection[i].count

\* C13: add (creating a record or reactivating one), remove, count and a failed
\* query leave the hit count of every record as it was; a successful query adds
\* exactly 1 to the hit count of the record of the alias it resolved and leaves the
\* hit count of every other record as it was.
C13_HitCountFrame ==
  \A u \in Urls, hash \in Hashes :
    /\ CountsKept(add(collection, baseUrl, u, hash).coll)
    /\ CountsKept(remove(collection, baseUrl, u).coll)
    /\ CountsKept(count(collection, baseUrl, u).coll)
    /\ LET q == query(collection, baseUrl, u)
       IN  IF HasError(q.res)
             THEN CountsKept(q.coll)
             ELSE \A i \in 1..Len(collection) :
                    /\ MapHas(q.coll, collection[i].key)
                    /\ CountOf(q.coll, collection[i].key) =
                         IF collection[i].key = AliasOf(u)
                           THEN collection[i].count + 1
                           ELSE collection[i].count

\* C14: for a syntactically valid same-origin URL, query returns a value exactly
\* when the store has a record for the URL's alias and that record is active, and
\* returns NOT_FOUND otherwise; a query that returns a value leaves the aliases of
\* the store and every record's active flag as they were.
C14_QueryActiveOnly ==
  \A u \in Urls :
    (~SyntaxInvalid(u) /\ toLowerCase(Authority(u)) = baseUrl) =>
      LET q      == query(collection, baseUrl, u)
          active == \E i \in 1..Len(collection) :
                      collection[i].key = AliasOf(u) /\ collection[i].active
      IN  /\ HasValue(q.res) <=> active
          /\ ~active => ErrorCode(q.res) = CodeNotFound
          /\ HasValue(q.res) =>
               /\ Len(q.coll) = Len(collection)
               /\ \A i \in 1..Len(collection) :
                    /\ q.coll[i].key = collection[i].key
                    /\ q.coll[i].active = collection[i].active

\* A store with an active record and a deactivated record, where query resolves
\* the short URL of the first and returns NOT_FOUND for the short URL of the second
\* and for a short URL with an unknown alias
C14_Witness ==
  /\ \E i, j \in 1..Len(collection) :
       /\ collection[i].active
       /\ ~collection[j].active
       /\ HasValue(query(collection, baseUrl, ShortUrlOf(collection[i].key)).res)
       /\ ErrorCode(query(collection, baseUrl, ShortUrlOf(collection[j].key)).res)
            = CodeNotFound
  /\ ~MapHas(collection, AliasOf(ShortZ))
  /\ ErrorCode(query(collection, baseUrl, ShortZ).res) = CodeNotFound

\* The scheme of a URL: its first '/'-delimited segment
Scheme(url) == At(split(url), 0)

\* The pairs of URLs with the same case-folded form
SameFolded == {p \in Urls \X Urls : toLowerCase(p[1]) = toLowerCase(p[2])}

\* Two successful adds, one after the other from this store, of URLs with the same
\* case-folded form return short URLs with the same alias and different schemes
SchemesDiffer ==
  \E p \in SameFolded, h1, h2 \in Hashes :
    LET first  == add(collection, baseUrl, p[1], h1)
        second == add(first.coll, baseUrl, p[2], h2)
    IN  /\ HasValue(first.res) /\ HasValue(second.res)
        /\ AliasOf(first.res.value) = AliasOf(second.res.value)
        /\ Scheme(first.res.value) # Scheme(second.res.value)

\* C15, as stated: a store whose callers go on calling reaches a state from which
\* two successful adds that resolve to the same record (the same case-folded long
\* URL, the same alias) return short URLs whose schemes differ.
C15_SchemeSubstitution == <>SchemesDiffer

\* C15, as amended: from no reachable store do two successful adds that resolve to
\* the same record return short URLs whose schemes differ: both carry the
\* lower-cased scheme of the record's long URL.
C15_SchemeFixed ==
  /\ ~SchemesDiffer
  /\ \A u \in Urls, hash \in Hashes :
       LET a == add(collection, baseUrl, u, hash)
       IN  HasValue(a.res) => Scheme(a.res.value) = Scheme(toLowerCase(u))

\* A store with a record of http://e.co/a at alias k, where add of that URL and add
\* of HTTP://E.co/A both resolve to the record and return http://s.ly/k
C15_Witness ==
  /\ MapHas(collection, HashK)
  /\ collection[MapIndex(collection, HashK)].longUrl = LongA
  /\ add(collection, baseUrl, LongA, <<>>).res = [value |-> ShortK]
  /\ add(collection, baseUrl, LongAUpper, <<>>).res = [value |-> ShortK]

\* C16: a remove that returns the empty object leaves the aliases of the store, in
\* their order, and every record's longUrl and hit count as they were, clears the
\* active flag of every record the URL names (by its alias when same-origin, by its
\* case-folded long URL otherwise) and leaves the active flag of every other
\* record as it was.
C16_RemoveFrame ==
  \A u \in Urls :
    LET r == remove(collection, baseUrl, u)
    IN  DOMAIN r.res = {} =>
          /\ Len(r.coll) = Len(collection)
          /\ \A i \in 1..Len(collection) :
               /\ r.coll[i].key = collection[i].key
               /\ r.coll[i].longUrl = collection[i].longUrl
               /\ r.coll[i].count = collection[i].count
               /\ r.coll[i].active = (collection[i].active /\ ~NamesRecord(u, i))

\* A store of two active records of different long URLs, one of them queried, where
\* remove of the queried one by its short URL and remove of the other by its long
\* URL both return the empty object
C16_Witness ==
  \E i, j \in 1..Len(collection) :
    /\ collection[i].longUrl # collection[j].longUrl
    /\ collection[i].active /\ collection[j].active
    /\ collection[i].count > 0
    /\ DOMAIN remove(collection, baseUrl, ShortUrlOf(collection[i].key)).res = {}
    /\ DOMAIN remove(collection, baseUrl, collection[j].longUrl).res = {}

ErrorCodes == {CodeUrlSyntax, CodeDomain, CodeNotFound}

\* The code of r is one of the three, when r is an error
CodeKnown(r) == HasError(r) => r.error.code \in ErrorCodes

\* C17: every error add, query, count or remove returns has the code URL_SYNTAX,
\* DOMAIN or NOT_FOUND; add never returns NOT_FOUND; count and remove never return
\* DOMAIN, and for a syntactically valid same-origin URL whose alias is no key of
\* the store they return NOT_FOUND.
C17_ErrorCodes ==
  \A u \in Urls, hash \in Hashes :
    LET a == add(collection, baseUrl, u, hash).res
        q == query(collection, baseUrl, u).res
        c == count(collection, baseUrl, u).res
        r == remove(collection, baseUrl, u).res
    IN  /\ CodeKnown(a) /\ CodeKnown(q) /\ CodeKnown(c) /\ CodeKnown(r)
        /\ ErrorCode(a) # CodeNotFound
        /\ ErrorCode(c) # CodeDomain
        /\ ErrorCode(r) # CodeDomain
        /\ ( /\ ~SyntaxInvalid(u)
             /\ toLowerCase(Authority(u)) = baseUrl
             /\ ~MapHas(collection, AliasOf(u)) ) =>
               /\ ErrorCode(c) = CodeNotFound
               /\ ErrorCode(r) = CodeNotFound

\* A store with a record at alias k and none at alias z, where count and remove
\* return NOT_FOUND for the store's URL of z and for an unknown long URL, add
\* returns DOMAIN for the store's URL of k, and query returns DOMAIN for a long URL
C17_Witness ==
  /\ MapHas(collection, HashK)
  /\ ~MapHas(collection, AliasOf(ShortZ))
  /\ ErrorCode(count(collection, baseUrl, ShortZ).res) = CodeNotFound
  /\ ErrorCode(remove(collection, baseUrl, ShortZ).res) = CodeNotFound
  /\ ErrorCode(count(collection, baseUrl, LongAHttps).res) = CodeNotFound
  /\ ErrorCode(add(collection, baseUrl, ShortK, HashK).res) = CodeDomain
  /\ ErrorCode(query(collection, baseUrl, LongA).res) = CodeDomain

\* C18: every record's longUrl is its own lower-case form, passes the syntax rule
\* and has an authority other than the configured domain; so for a syntactically
\* valid same-origin URL whose alias is no key of the store, no record's longUrl is
\* the URL's case-folded form.
C18_StoredUrls ==
  /\ \A i \in 1..Len(collection) :
       /\ collection[i].longUrl = toLowerCase(collection[i].longUrl)
       /\ ~SyntaxInvalid(collection[i].longUrl)
       /\ Authority(collection[i].longUrl) # baseUrl
  /\ \A u \in Urls :
       ( /\ ~SyntaxInvalid(u)
         /\ toLowerCase(Authority(u)) = baseUrl
         /\ ~MapHas(collection, AliasOf(u)) ) =>
           \A i \in 1..Len(collection) : collection[i].longUrl # toLowerCase(u)

\* A store with records of http://e.co/a and https://e.co/a and no record at alias
\* z, where remove of the store's URL of z scans the long URLs and finds none
C18_Witness ==
  /\ \E i, j \in 1..Len(collection) :
       /\ collection[i].longUrl = LongA
       /\ collection[j].longUrl = LongAHttps
  /\ ~MapHas(collection, AliasOf(ShortZ))
  /\ IsSameOrigin(baseUrl, ShortZ)
  /\ remove(collection, baseUrl, ShortZ).res = NotFound

====
